---- MODULE Spec2Model ----
(***************************************************************************)
(* The Company and Job models of expressJobly (models/company.js,          *)
(* models/job.js) and the partial-update helper sqlForPartialUpdate        *)
(* (helpers/sql.js), over a small PostgreSQL-like store.                   *)
(*                                                                         *)
(* SQL text is kept as the sequence of its pieces in source order (the     *)
(* string is their concatenation); a piece that the code computes, such as *)
(* "num_employees"=$2 or $3, is built by string concatenation exactly as   *)
(* the template literal builds it, and the store reads it back by parsing. *)
(* Every await db.query(...) is one atomic step of the store.              *)
(***************************************************************************)
EXTENDS Integers, Sequences, FiniteSets, TLC

\* ------------------------------------------------------------------ bounds
\* longest field mapping handed to update / sqlForPartialUpdate
MaxFields == 2
\* last value the jobs id sequence hands out
MaxJobId == 2
\* number of concurrently served requests
NumProcs == 2

Procs == 1 .. NumProcs

\* ------------------------------------------------------------- sample data
Handles == {"c1", "c2"}
Titles == {"Dev", "Ops"}
JobIds == 1 .. MaxJobId

\* JS / SQL values carry their type, so that any two can be compared
Str(s) == [t |-> "string", n |-> 0, s |-> s]
Num(n) == [t |-> "number", n |-> n, s |-> ""]
Bool(b) == [t |-> "boolean", n |-> IF b THEN 1 ELSE 0, s |-> ""]
Undefined == [t |-> "undefined", n |-> 0, s |-> ""]
Null == [t |-> "null", n |-> 0, s |-> ""]

\* ToBoolean: undefined, null, 0, "" and false are falsy
Truthy(v) ==
    CASE v.t = "string" -> v.s # ""
      [] v.t = "number" -> v.n # 0
      [] v.t = "boolean" -> v.n = 1
      [] OTHER -> FALSE

\* template-literal conversion of a value to text
Text(v) == IF v.t = "number" THEN ToString(v.n) ELSE v.s

\* ------------------------------------------------------------ JS helpers
\* Array.prototype.join
RECURSIVE Join(_, _)
Join(pieces, sep) ==
    IF Len(pieces) = 0 THEN <<>>
    ELSE IF Len(pieces) = 1 THEN pieces
    ELSE <<Head(pieces), sep>> \o Join(Tail(pieces), sep)

\* "$" + n
Placeholder(n) == "$" \o ToString(n)

\* a thrown error / a returned value, with the statements sent so far
Throw(kind, msg, sent) == [err |-> kind, msg |-> msg, ret |-> <<>>, sent |-> sent]
Return(val, sent) == [err |-> "none", msg |-> "", ret |-> val, sent |-> sent]
NoResult == [err |-> "pending", msg |-> "", ret |-> <<>>, sent |-> <<>>]

\* an object is the sequence of its own enumerable properties, in
\* Object.keys order: <<[k |-> key, v |-> value], ...>> with distinct keys
Keys(obj) == [i \in DOMAIN obj |-> obj[i].k]
ValuesReversed(obj) == [i \in DOMAIN obj |-> obj[Len(obj) + 1 - i].v]
Values(obj) == [i \in DOMAIN obj |-> obj[i].v]
\* obj[key], undefined when obj has no such property
Get(obj, key) ==
    IF \E i \in DOMAIN obj : obj[i].k = key
    THEN obj[CHOOSE i \in DOMAIN obj : obj[i].k = key].v
    ELSE Undefined

\* jsToSql[colName] || colName : an absent or empty entry falls back
ColumnFor(jsToSql, colName) ==
    IF colName \in DOMAIN jsToSql /\ jsToSql[colName] # ""
    THEN jsToSql[colName]
    ELSE colName

\* `"${jsToSql[colName] || colName}"=$${idx + 1}`, idx counted from 0
FragmentZeroBased(jsToSql, colName, idx) ==
    "\"" \o ColumnFor(jsToSql, colName) \o "\"=" \o Placeholder(idx)
Fragment(jsToSql, colName, idx) ==
    "\"" \o ColumnFor(jsToSql, colName) \o "\"=" \o Placeholder(idx + 1)

\* helpers/sql.js
sqlForPartialUpdateUnchecked(dataToUpdate, jsToSql) ==
    LET keys == Keys(dataToUpdate)
        cols == [i \in DOMAIN keys |-> Fragment(jsToSql, keys[i], i - 1)]
    IN  [err |-> "none", msg |-> "",
         setCols |-> Join(cols, ", "),
         values |-> Values(dataToUpdate)]
sqlForPartialUpdate(dataToUpdate, jsToSql) ==
    LET keys == Keys(dataToUpdate)
        cols == [i \in DOMAIN keys |-> Fragment(jsToSql, keys[i], i - 1)]
    IN  IF Len(keys) = 0
        THEN [err |-> "BadRequestError", msg |-> "No data",
              setCols |-> <<>>, values |-> <<>>]
        ELSE [err |-> "none", msg |-> "",
              setCols |-> Join(cols, ", "),
              values |-> Values(dataToUpdate)]

\* ------------------------------------------------------------------ state
VARIABLES
    companies,  \* rows of table companies
    jobs,       \* rows of table jobs
    nextId,     \* next value of the jobs id sequence
    pc,         \* per request: "idle", "called", "insert" (create, between
                \* its two statements) or "done"
    req,        \* per request: the call being served
    res         \* per request: what the call threw or returned

vars == <<companies, jobs, nextId, pc, req, res>>

CompanyColumns == {"handle", "name", "description", "num_employees", "logo_url"}
JobColumns == {"id", "title", "salary", "equity", "company_handle"}

\* the type a column accepts (equity is NUMERIC, read back as text)
ColumnType(column) ==
    IF column \in {"num_employees", "id", "salary"} THEN "number" ELSE "string"

\* a statement handed to db.query: its text and its positional parameters
Stmt(text, params) == [text |-> text, params |-> params]

\* result.rows of a statement without ORDER BY: the rows in some order
Orderings(rows) ==
    {f \in [1 .. Cardinality(rows) -> rows] :
        \A i, j \in 1 .. Cardinality(rows) : i # j => f[i] # f[j]}

\* ------------------------------------------------- the store: SQL parsing
\* the positions n for which the piece reads $n
ParsePlaceholder(piece, nparams) ==
    {n \in 1 .. nparams : Placeholder(n) = piece}

\* the <<column, n>> for which the piece reads "column"=$n
ParseAssignment(piece, columns, nparams) ==
    {a \in columns \X (1 .. nparams) :
        "\"" \o a[1] \o "\"=" \o Placeholder(a[2]) = piece}

\* the assignment pieces of a SET list: every other piece, commas between
SetPieces(setList) ==
    [i \in 1 .. ((Len(setList) + 1) \div 2) |-> setList[2 * i - 1]]

\* every assignment names a column of the table and a bound parameter of
\* the column's type
SetListWellFormed(setList, columns, params) ==
    /\ Len(setList) % 2 = 1
    /\ \A i \in DOMAIN setList :
          IF i % 2 = 0 THEN setList[i] = ", "
          ELSE /\ ParseAssignment(setList[i], columns, Len(params)) # {}
               /\ \A a \in ParseAssignment(setList[i], columns, Len(params)) :
                     params[a[2]].t = ColumnType(a[1])

\* row with the assignments of a SET list applied, values taken from params
RECURSIVE Assign(_, _, _, _)
Assign(row, pieces, columns, params) ==
    IF Len(pieces) = 0 THEN row
    ELSE LET a == CHOOSE a \in ParseAssignment(Head(pieces), columns, Len(params)) : TRUE
         IN  Assign([row EXCEPT ![a[1]] = params[a[2]]], Tail(pieces), columns, params)

\* UPDATE <table> SET <setList> WHERE <keyColumn> = <$n> RETURNING ...
\* text = <<"UPDATE <table> SET">> \o setList \o <<"WHERE <key> =", $n, "RETURNING ...">>
\* gives [ok, rows (the table afterwards), hit (the rows as updated)]
ExecUpdate(table, columns, keyColumn, stmt) ==
    LET text == stmt.text
        params == stmt.params
        setList == SubSeq(text, 2, Len(text) - 3)
        wherePos == ParsePlaceholder(text[Len(text) - 1], Len(params))
    IN  IF \/ Len(text) < 5
           \/ ~SetListWellFormed(setList, columns \ {keyColumn}, params)
           \/ wherePos = {}
        THEN [ok |-> FALSE, rows |-> table, hit |-> {}]
        ELSE LET key == params[CHOOSE n \in wherePos : TRUE]
                 old == {r \in table : r[keyColumn] = key}
                 new == {Assign(r, SetPieces(setList), columns, params) : r \in old}
             IN  [ok |-> TRUE, rows |-> (table \ old) \cup new, hit |-> new]

\* PostgreSQL's ILIKE on the sample texts: the lower-cased fragments a
\* %fragment% pattern matches
Fragments(text) ==
    CASE text = "Acme" -> {"", "ac", "me"}
      [] text = "Bolt" -> {"", "bo", "lt"}
      [] text = "Dev" -> {"", "de", "ev"}
      [] text = "Ops" -> {"", "op", "ps"}
      [] OTHER -> {""}

ILike(text, pattern) == \E s \in Fragments(text) : pattern = "%" \o s \o "%"

\* NUMERIC equity > 0 on the sample values
EquityPositive(equity) == equity \in {"0.1", "0.5"}

\* the conditions of a WHERE clause, pieces after the SELECT ... FROM piece:
\* "WHERE"/"AND", a comparison, and its $n unless the comparison is literal
RECURSIVE ParseWhere(_, _)
ParseWhere(pieces, first) ==
    IF Len(pieces) = 0 THEN <<>>
    ELSE IF Head(pieces) # (IF first THEN "WHERE" ELSE "AND") \/ Len(pieces) < 2
    THEN <<[bad |-> TRUE, cmp |-> "", ph |-> ""]>>
    ELSE IF pieces[2] = "equity > 0"
    THEN <<[bad |-> FALSE, cmp |-> pieces[2], ph |-> ""]>>
            \o ParseWhere(SubSeq(pieces, 3, Len(pieces)), FALSE)
    ELSE IF Len(pieces) < 3
    THEN <<[bad |-> TRUE, cmp |-> "", ph |-> ""]>>
    ELSE <<[bad |-> FALSE, cmp |-> pieces[2], ph |-> pieces[3]]>>
            \o ParseWhere(SubSeq(pieces, 4, Len(pieces)), FALSE)

\* the type of the right-hand side a comparison accepts
ComparisonType(cmp) ==
    IF cmp \in {"name ILIKE", "title ILIKE"} THEN "string" ELSE "number"

\* a prepared statement's parameters are $1..$n for the n values bound,
\* each of the type its comparison accepts
WhereWellFormed(conds, comparisons, params) ==
    /\ \A i \in DOMAIN conds :
          /\ ~conds[i].bad
          /\ conds[i].cmp \in comparisons
          /\ conds[i].ph # "" =>
                /\ ParsePlaceholder(conds[i].ph, Len(params)) # {}
                /\ \A n \in ParsePlaceholder(conds[i].ph, Len(params)) :
                      params[n].t = ComparisonType(conds[i].cmp)
    /\ \A n \in 1 .. Len(params) :
          \E i \in DOMAIN conds : conds[i].ph = Placeholder(n)

Holds(row, cond, params) ==
    LET arg == params[CHOOSE n \in ParsePlaceholder(cond.ph, Len(params)) : TRUE]
    IN  CASE cond.cmp = "name ILIKE" -> ILike(row.name.s, arg.s)
          [] cond.cmp = "title ILIKE" -> ILike(row.title.s, arg.s)
          [] cond.cmp = "num_employees >=" -> row.num_employees.n >= arg.n
          [] cond.cmp = "num_employees <=" -> row.num_employees.n <= arg.n
          [] cond.cmp = "salary >=" -> row.salary.n >= arg.n
          [] cond.cmp = "equity > 0" -> EquityPositive(row.equity.s)

\* SELECT ... FROM <table> [WHERE ...]: gives [ok, rows]
ExecSelect(table, comparisons, stmt) ==
    LET conds == ParseWhere(Tail(stmt.text), TRUE)
    IN  IF ~WhereWellFormed(conds, comparisons, stmt.params)
        THEN [ok |-> FALSE, rows |-> {}]
        ELSE [ok |-> TRUE,
              rows |-> {r \in table :
                          \A i \in DOMAIN conds : Holds(r, conds[i], stmt.params)}]

\* SELECT ... WHERE <column> = $1
SelectWhere(table, column, value) == {r \in table : r[column] = value}

\* DELETE FROM <table> WHERE <column> = $1 RETURNING <column>
DeleteEverything(table, column, value) ==
    [rows |-> {}, hit |-> table]
DeleteWhere(table, column, value) ==
    [rows |-> table \ SelectWhere(table, column, value),
     hit |-> SelectWhere(table, column, value)]

\* ---------------------------------------------------- the schema's constraints
\* companies.handle is the primary key
PrimaryKeyFree(table, handle) == SelectWhere(table, "handle", handle) = {}
\* jobs.company_handle references companies
ForeignKeyHolds(table, handle) == SelectWhere(table, "handle", handle) # {}
\* ... and a company's jobs go with it
CascadeDelete(jobsTable, handle) ==
    jobsTable \ SelectWhere(jobsTable, "company_handle", handle)

\* ------------------------------------------------------------ the models
\* the column-name translations update() hands to sqlForPartialUpdate
CompanyJsToSql == [numEmployees |-> "num_employees", logoUrl |-> "logo_url"]
JobJsToSql ==
    [title |-> "title", salary |-> "salary", equity |-> "equity",
     companyHandle |-> "company_handle"]

\* RETURNING / SELECT lists with their AS aliases
CompanyReturning(row) ==
    [handle |-> row.handle, name |-> row.name, description |-> row.description,
     numEmployees |-> row.num_employees, logoUrl |-> row.logo_url]
JobReturning(row) ==
    [id |-> row.id, title |-> row.title, salary |-> row.salary,
     equity |-> row.equity, companyHandle |-> row.company_handle]

CompanySelectList ==
    "SELECT handle, name, description, num_employees AS \"numEmployees\", logo_url AS \"logoUrl\" FROM companies"
JobSelectList ==
    "SELECT id, title, salary, equity, company_handle AS \"companyHandle\" FROM jobs"
CompanyReturningList ==
    "RETURNING handle, name, description, num_employees AS \"numEmployees\", logo_url AS \"logoUrl\""
JobReturningList ==
    "RETURNING id, title, salary, equity, company_handle AS \"companyHandle\""

CompanyComparisons == {"name ILIKE", "num_employees >=", "num_employees <="}
JobComparisons == {"title ILIKE", "salary >=", "equity > 0"}

\* $${values.length + 1}
SamePlaceholder(values) == Placeholder(Len(values))
NextPlaceholder(values) == Placeholder(Len(values) + 1)

\* one more clause on a query under construction: AND after a parameter
\* has been pushed, WHERE otherwise
AddClause(q, cmp, value) ==
    [query |-> q.query \o
                 (IF Len(q.values) # 0
                  THEN <<"AND", cmp, NextPlaceholder(q.values)>>
                  ELSE <<"WHERE", cmp, "$1">>),
     values |-> Append(q.values, value)]

\* Company.findAll: the query and the values it builds
CompanyFindAllQuery(filters) ==
    LET name == Get(filters, "name")
        minEmployees == Get(filters, "minEmployees")
        maxEmployees == Get(filters, "maxEmployees")
        q0 == [query |-> <<CompanySelectList>>, values |-> <<>>]
        q1 == IF Truthy(name)
              THEN [query |-> q0.query \o <<"WHERE", "name ILIKE", "$1">>,
                    values |-> Append(q0.values, Str("%" \o Text(name) \o "%"))]
              ELSE q0
        q2 == IF Truthy(minEmployees)
              THEN AddClause(q1, "num_employees >=", minEmployees)
              ELSE q1
        q3 == IF Truthy(maxEmployees)
              THEN AddClause(q2, "num_employees <=", maxEmployees)
              ELSE q2
    IN  Stmt(q3.query, q3.values)

\* Job.findAll: the query and the values it builds
JobFindAllQuery(filters) ==
    LET title == Get(filters, "title")
        minSalary == Get(filters, "minSalary")
        hasEquity == Get(filters, "hasEquity")
        q0 == [query |-> <<JobSelectList>>, values |-> <<>>]
        q1 == IF Truthy(title)
              THEN [query |-> q0.query \o <<"WHERE", "title ILIKE", "$1">>,
                    values |-> Append(q0.values, Str("%" \o Text(title) \o "%"))]
              ELSE q0
        q2 == IF Truthy(minSalary)
              THEN AddClause(q1, "salary >=", minSalary)
              ELSE q1
        q3 == IF hasEquity # Undefined
              THEN [query |-> q2.query \o
                                (IF Len(q2.values) # 0
                                 THEN <<"AND", "equity > 0">>
                                 ELSE <<"WHERE", "equity > 0">>),
                    values |-> q2.values]
              ELSE q2
    IN  Stmt(q3.query, q3.values)

\* Company.get: companies LEFT JOIN jobs ON c.handle = j.company_handle
NullJob ==
    [id |-> Null, title |-> Null, salary |-> Null, equity |-> Null,
     company_handle |-> Null]
JoinedRow(c, j) ==
    [handle |-> c.handle, name |-> c.name, description |-> c.description,
     numEmployees |-> c.num_employees, logoUrl |-> c.logo_url,
     job_id |-> j.id, job_title |-> j.title, job_salary |-> j.salary,
     job_equity |-> j.equity]
LeftJoin(companyRows, jobRows) ==
    UNION {IF SelectWhere(jobRows, "company_handle", c.handle) = {}
           THEN {JoinedRow(c, NullJob)}
           ELSE {JoinedRow(c, j) :
                   j \in SelectWhere(jobRows, "company_handle", c.handle)}
           : c \in companyRows}

\* Company.get after the query: rows is companyRes.rows
CompanyGetResult(rows, handle, sent) ==
    IF Len(rows) = 0
    THEN Throw("NotFoundError", "No company: " \o Text(handle), sent)
    ELSE LET company == rows[1]
             jobList == [i \in DOMAIN rows |->
                           [id |-> rows[i].job_id, title |-> rows[i].job_title,
                            salary |-> rows[i].job_salary,
                            equity |-> rows[i].job_equity]]
         IN  Return([handle |-> company.handle, name |-> company.name,
                     description |-> company.description,
                     numEmployees |-> company.numEmployees,
                     logoUrl |-> company.logoUrl, jobs |-> jobList], sent)

\* the duplicate checks of create
CompanyDuplicateByName(table, handle) == SelectWhere(table, "name", handle)
CompanyDuplicateCheck(table, handle) == SelectWhere(table, "handle", handle)
JobDuplicateCheck(table, title) == SelectWhere(table, "title", title)

\* the UPDATE statements of update
CompanyUpdateStmt(u, handle) ==
    Stmt(<<"UPDATE companies SET">> \o u.setCols
            \o <<"WHERE handle =", "$" \o ToString(Len(u.values) + 1),
                 CompanyReturningList>>,
         u.values \o <<handle>>)
JobUpdateStmt(u, id) ==
    Stmt(<<"UPDATE jobs SET">> \o u.setCols
            \o <<"WHERE id =", "$" \o ToString(Len(u.values) + 1),
                 JobReturningList>>,
         u.values \o <<id>>)

\* ---------------------------------------------------------------- actions
Finish(p, result) ==
    /\ pc' = [pc EXCEPT ![p] = "done"]
    /\ res' = [res EXCEPT ![p] = result]

Serving(p, op) == pc[p] = "called" /\ req[p].op = op

\* Company.create, first statement: the duplicate check
CompanyCreateCheck(p) ==
    /\ Serving(p, "Company.create")
    /\ LET handle == req[p].data.handle
           stmt == Stmt(<<"SELECT handle FROM companies WHERE handle =", "$1">>,
                        <<handle>>)
       IN  IF CompanyDuplicateCheck(companies, handle) # {}
           THEN Finish(p, Throw("BadRequestError",
                                "Duplicate company: " \o Text(handle), <<stmt>>))
           ELSE /\ pc' = [pc EXCEPT ![p] = "insert"]
                /\ res' = [res EXCEPT ![p] = [NoResult EXCEPT !.sent = <<stmt>>]]
    /\ UNCHANGED <<companies, jobs, nextId, req>>

\* Company.create, second statement: the INSERT
CompanyCreateInsert(p) ==
    /\ pc[p] = "insert" /\ req[p].op = "Company.create"
    /\ LET d == req[p].data
           row == [handle |-> d.handle, name |-> d.name,
                   description |-> d.description,
                   num_employees |-> d.numEmployees, logo_url |-> d.logoUrl]
           stmt == Stmt(<<"INSERT INTO companies (handle, name, description, num_employees, logo_url) VALUES",
                          "$1", "$2", "$3", "$4", "$5", CompanyReturningList>>,
                        <<d.handle, d.name, d.description, d.numEmployees, d.logoUrl>>)
           sent == Append(res[p].sent, stmt)
       IN  IF PrimaryKeyFree(companies, d.handle)
           THEN /\ companies' = companies \cup {row}
                /\ Finish(p, Return(CompanyReturning(row), sent))
           ELSE /\ companies' = companies
                /\ Finish(p, Throw("DatabaseError",
                                   "duplicate key value violates unique constraint", sent))
    /\ UNCHANGED <<jobs, nextId, req>>

CompanyFindAll(p) ==
    /\ Serving(p, "Company.findAll")
    /\ LET stmt == CompanyFindAllQuery(req[p].filters)
           result == ExecSelect(companies, CompanyComparisons, stmt)
       IN  IF ~result.ok
           THEN Finish(p, Throw("DatabaseError", "syntax error", <<stmt>>))
           ELSE \E rows \in Orderings(result.rows) :
                   Finish(p, Return([i \in DOMAIN rows |-> CompanyReturning(rows[i])],
                                    <<stmt>>))
    /\ UNCHANGED <<companies, jobs, nextId, req>>

CompanyGet(p) ==
    /\ Serving(p, "Company.get")
    /\ LET handle == req[p].handle
           stmt == Stmt(<<"SELECT c.handle, c.name, c.description, c.num_employees AS \"numEmployees\", c.logo_url AS \"logoUrl\", j.id AS job_id, j.title AS job_title, j.salary AS job_salary, j.equity AS job_equity FROM companies AS c LEFT JOIN jobs AS j ON c.handle = j.company_handle WHERE c.handle =",
                          "$1">>, <<handle>>)
       IN  \E rows \in Orderings(LeftJoin(SelectWhere(companies, "handle", handle), jobs)) :
               Finish(p, CompanyGetResult(rows, handle, <<stmt>>))
    /\ UNCHANGED <<companies, jobs, nextId, req>>

CompanyUpdate(p) ==
    /\ Serving(p, "Company.update")
    /\ LET handle == req[p].handle
           u == sqlForPartialUpdate(req[p].data, CompanyJsToSql)
           stmt == CompanyUpdateStmt(u, handle)
           result == ExecUpdate(companies, CompanyColumns, "handle", stmt)
       IN  IF u.err # "none"
           THEN companies' = companies /\ Finish(p, Throw(u.err, u.msg, <<>>))
           ELSE IF ~result.ok
           THEN /\ companies' = companies
                /\ Finish(p, Throw("DatabaseError", "syntax error", <<stmt>>))
           ELSE /\ companies' = result.rows
                /\ IF result.hit = {}
                   THEN Finish(p, Throw("NotFoundError",
                                        "No company: " \o Text(handle), <<stmt>>))
                   ELSE \E company \in result.hit :
                           Finish(p, Return(CompanyReturning(company), <<stmt>>))
    /\ UNCHANGED <<jobs, nextId, req>>

CompanyRemove(p) ==
    /\ Serving(p, "Company.remove")
    /\ LET handle == req[p].handle
           stmt == Stmt(<<"DELETE FROM companies WHERE handle =", "$1",
                          "RETURNING handle">>, <<handle>>)
           result == DeleteWhere(companies, "handle", handle)
       IN  /\ companies' = result.rows
           /\ jobs' = IF result.hit # {} THEN CascadeDelete(jobs, handle) ELSE jobs
           /\ IF result.hit = {}
              THEN Finish(p, Throw("NotFoundError",
                                   "No company: " \o Text(handle), <<stmt>>))
              ELSE Finish(p, Return(Undefined, <<stmt>>))
    /\ UNCHANGED <<nextId, req>>

\* Job.create, first statement: the duplicate check
JobCreateCheck(p) ==
    /\ Serving(p, "Job.create")
    /\ LET title == req[p].data.title
           stmt == Stmt(<<"SELECT title FROM jobs WHERE title =", "$1">>, <<title>>)
       IN  IF JobDuplicateCheck(jobs, title) # {}
           THEN Finish(p, Throw("BadRequestError",
                                "Duplicate job: " \o Text(title), <<stmt>>))
           ELSE /\ pc' = [pc EXCEPT ![p] = "insert"]
                /\ res' = [res EXCEPT ![p] = [NoResult EXCEPT !.sent = <<stmt>>]]
    /\ UNCHANGED <<companies, jobs, nextId, req>>

\* Job.create, second statement: the INSERT; the id comes from the sequence
JobCreateInsert(p) ==
    /\ pc[p] = "insert" /\ req[p].op = "Job.create"
    /\ LET d == req[p].data
           row == [id |-> Num(nextId), title |-> d.title, salary |-> d.salary,
                   equity |-> d.equity, company_handle |-> d.company_handle]
           stmt == Stmt(<<"INSERT INTO jobs (title, salary, equity, company_handle) VALUES",
                          "$1", "$2", "$3", "$4", JobReturningList>>,
                        <<d.title, d.salary, d.equity, d.company_handle>>)
           sent == Append(res[p].sent, stmt)
       IN  IF ForeignKeyHolds(companies, d.company_handle)
           THEN /\ jobs' = jobs \cup {row}
                /\ Finish(p, Return(JobReturning(row), sent))
           ELSE /\ jobs' = jobs
                /\ Finish(p, Throw("DatabaseError",
                                   "violates foreign key constraint", sent))
    /\ nextId' = nextId + 1
    /\ UNCHANGED <<companies, req>>

JobFindAll(p) ==
    /\ Serving(p, "Job.findAll")
    /\ LET stmt == JobFindAllQuery(req[p].filters)
           result == ExecSelect(jobs, JobComparisons, stmt)
       IN  IF ~result.ok
           THEN Finish(p, Throw("DatabaseError", "syntax error", <<stmt>>))
           ELSE \E rows \in Orderings(result.rows) :
                   Finish(p, Return([i \in DOMAIN rows |-> JobReturning(rows[i])],
                                    <<stmt>>))
    /\ UNCHANGED <<companies, jobs, nextId, req>>

JobGet(p) ==
    /\ Serving(p, "Job.get")
    /\ LET id == req[p].id
           stmt == Stmt(<<JobSelectList, "WHERE id =", "$1">>, <<id>>)
           rows == SelectWhere(jobs, "id", id)
       IN  IF rows = {}
           THEN Finish(p, Throw("NotFoundError", "No job: " \o Text(id), <<stmt>>))
           ELSE \E job \in rows : Finish(p, Return(JobReturning(job), <<stmt>>))
    /\ UNCHANGED <<companies, jobs, nextId, req>>

\* the not-found branch evaluates `No job: ${handle}`; no handle is in scope
JobUpdate(p) ==
    /\ Serving(p, "Job.update")
    /\ LET id == req[p].id
           u == sqlForPartialUpdate(req[p].data, JobJsToSql)
           stmt == JobUpdateStmt(u, id)
           result == ExecUpdate(jobs, JobColumns, "id", stmt)
       IN  IF u.err # "none"
           THEN jobs' = jobs /\ Finish(p, Throw(u.err, u.msg, <<>>))
           ELSE IF ~result.ok
           THEN /\ jobs' = jobs
                /\ Finish(p, Throw("DatabaseError", "syntax error", <<stmt>>))
           ELSE /\ jobs' = result.rows
                /\ IF result.hit = {}
                   THEN Finish(p, Throw("ReferenceError",
                                        "handle is not defined", <<stmt>>))
                   ELSE \E job \in result.hit :
                           Finish(p, Return(JobReturning(job), <<stmt>>))
    /\ UNCHANGED <<companies, nextId, req>>

JobRemove(p) ==
    /\ Serving(p, "Job.remove")
    /\ LET id == req[p].id
           stmt == Stmt(<<"DELETE FROM jobs WHERE id =", "$1", "RETURNING id">>,
                        <<id>>)
           result == DeleteWhere(jobs, "id", id)
       IN  /\ jobs' = result.rows
           /\ IF result.hit = {}
              THEN Finish(p, Throw("NotFoundError", "No job: " \o Text(id), <<stmt>>))
              ELSE Finish(p, Return(Undefined, <<stmt>>))
    /\ UNCHANGED <<companies, nextId, req>>

\* a direct call of the helper
SqlForPartialUpdateCall(p) ==
    /\ Serving(p, "sqlForPartialUpdate")
    /\ LET u == sqlForPartialUpdate(req[p].data, req[p].jsToSql)
       IN  IF u.err # "none"
           THEN Finish(p, Throw(u.err, u.msg, <<>>))
           ELSE Finish(p, Return([setCols |-> u.setCols, values |-> u.values], <<>>))
    /\ UNCHANGED <<companies, jobs, nextId, req>>

\* --------------------------------------------------------------- requests
\* the objects of at most n properties with distinct keys drawn from entries
Objects(entries, n) ==
    UNION {{o \in [1 .. len -> entries] :
              \A i, j \in 1 .. len : i # j => o[i].k # o[j].k}
           : len \in 0 .. n}

Entry(key, value) == [k |-> key, v |-> value]

CompanyData(handle) ==
    [handle |-> Str(handle), name |-> Str("Acme"), description |-> Str("Maker"),
     numEmployees |-> Num(5), logoUrl |-> Str("a.png")]
CompanyPatches ==
    Objects({Entry("name", Str("Bolt")), Entry("description", Str("Maker")),
             Entry("numEmployees", Num(0)), Entry("logoUrl", Str("a.png"))},
            MaxFields)

JobData(title, handle) ==
    [title |-> Str(title), salary |-> Num(100), equity |-> Str("0.1"),
     company_handle |-> Str(handle)]
JobPatches ==
    Objects({Entry("title", Str("Ops")), Entry("salary", Num(100)),
             Entry("equity", Str("0.1"))},
            MaxFields)

CompanyCreates == {[op |-> "Company.create", data |-> CompanyData(h)] : h \in Handles}
JobCreates ==
    {[op |-> "Job.create", data |-> JobData(t, h)] : t \in Titles, h \in Handles}

Requests ==
    CompanyCreates \cup JobCreates
      \cup {[op |-> "Company.get", handle |-> Str(h)] : h \in Handles}
      \cup {[op |-> "Company.update", handle |-> Str(h), data |-> d] :
              h \in Handles, d \in CompanyPatches}
      \cup {[op |-> "Company.remove", handle |-> Str(h)] : h \in Handles}
      \cup {[op |-> "Job.get", id |-> Num(i)] : i \in JobIds}
      \cup {[op |-> "Job.update", id |-> Num(i), data |-> d] :
              i \in JobIds, d \in JobPatches}
      \cup {[op |-> "Job.remove", id |-> Num(i)] : i \in JobIds}

\* findAll's criteria: each filter absent, 0 / false, or truthy
Criterion(key, value) == IF value = Undefined THEN <<>> ELSE <<Entry(key, value)>>
CompanyFilters ==
    {Criterion("name", name) \o Criterion("minEmployees", minEmployees)
        \o Criterion("maxEmployees", maxEmployees) :
        name \in {Undefined, Str("ac"), Str("bo")},
        minEmployees \in {Undefined, Num(0), Num(3)},
        maxEmployees \in {Undefined, Num(0), Num(3)}}
JobFilters ==
    {Criterion("title", title) \o Criterion("minSalary", minSalary)
        \o Criterion("hasEquity", hasEquity) :
        title \in {Undefined, Str("de"), Str("op")},
        minSalary \in {Undefined, Num(0), Num(50)},
        hasEquity \in {Undefined, Bool(FALSE), Bool(TRUE)}}
FindAllRequests ==
    {[op |-> "Company.findAll", filters |-> f] : f \in CompanyFilters}
      \cup {[op |-> "Job.findAll", filters |-> f] : f \in JobFilters}

\* the criteria none of whose values is 0
GivenFindAllRequests ==
    {r \in FindAllRequests :
        \A i \in DOMAIN r.filters :
            r.filters[i].k # "hasEquity" => Truthy(r.filters[i].v)}

NoRequest == [op |-> "none"]

InFlightJobCreates ==
    Cardinality({q \in Procs : pc[q] \in {"called", "insert"} /\ req[q].op = "Job.create"})

\* a request arrives; a Job.create is let in while the id sequence has ids left
Arrive(p, r) ==
    /\ pc[p] = "idle"
    /\ r.op = "Job.create" => nextId + InFlightJobCreates <= MaxJobId
    /\ pc' = [pc EXCEPT ![p] = "called"]
    /\ req' = [req EXCEPT ![p] = r]
    /\ res' = [res EXCEPT ![p] = NoResult]
    /\ UNCHANGED <<companies, jobs, nextId>>

\* the response has been sent
Respond(p) ==
    /\ pc[p] = "done"
    /\ pc' = [pc EXCEPT ![p] = "idle"]
    /\ req' = [req EXCEPT ![p] = NoRequest]
    /\ res' = [res EXCEPT ![p] = NoResult]
    /\ UNCHANGED <<companies, jobs, nextId>>

Call(p) == \E r \in Requests : Arrive(p, r)
CallFindAll(p) == \E r \in FindAllRequests : Arrive(p, r)
CallFindAllGiven(p) == \E r \in GivenFindAllRequests : Arrive(p, r)
CallCreate(p) == \E r \in CompanyCreates \cup JobCreates : Arrive(p, r)

\* --------------------------------------------------------- specifications
Init ==
    /\ companies = {}
    /\ jobs = {}
    /\ nextId = 1
    /\ pc = [p \in Procs |-> "idle"]
    /\ req = [p \in Procs |-> NoRequest]
    /\ res = [p \in Procs |-> NoResult]

\* one request at a time, every operation that reads or writes single rows
Next ==
    \/ Call(1)
    \/ CompanyCreateCheck(1)
    \/ CompanyCreateInsert(1)
    \/ CompanyGet(1)
    \/ CompanyUpdate(1)
    \/ CompanyRemove(1)
    \/ JobCreateCheck(1)
    \/ JobCreateInsert(1)
    \/ JobGet(1)
    \/ JobUpdate(1)
    \/ JobRemove(1)
    \/ Respond(1)

Spec == Init /\ [][Next]_vars

\* two stored companies and two stored jobs, for findAll to select from
Seeded ==
    /\ companies =
          {[handle |-> Str("c1"), name |-> Str("Acme"), description |-> Str("Maker"),
            num_employees |-> Num(5), logo_url |-> Str("a.png")],
           [handle |-> Str("c2"), name |-> Str("Bolt"), description |-> Str("Maker"),
            num_employees |-> Num(0), logo_url |-> Str("a.png")]}
    /\ jobs =
          {[id |-> Num(1), title |-> Str("Dev"), salary |-> Num(100),
            equity |-> Str("0.1"), company_handle |-> Str("c1")],
           [id |-> Num(2), title |-> Str("Ops"), salary |-> Num(0),
            equity |-> Str("0"), company_handle |-> Str("c1")]}
    /\ nextId = 3

InitFind ==
    /\ Seeded \/ (companies = {} /\ jobs = {} /\ nextId = 1)
    /\ pc = [p \in Procs |-> "idle"]
    /\ req = [p \in Procs |-> NoRequest]
    /\ res = [p \in Procs |-> NoResult]

NextFind ==
    \/ CallFindAll(1)
    \/ CompanyFindAll(1)
    \/ JobFindAll(1)
    \/ Respond(1)

\* findAll under every combination of criteria
SpecFind == InitFind /\ [][NextFind]_vars

NextFindGiven ==
    \/ CallFindAllGiven(1)
    \/ CompanyFindAll(1)
    \/ JobFindAll(1)
    \/ Respond(1)

\* findAll under the criteria that hold no 0
SpecFindGiven == InitFind /\ [][NextFindGiven]_vars

\* the helper's inputs: every field mapping of at most MaxFields fields and
\* every translation of some of the fields to a column name
SqlKeys == {"firstName", "age", "name"}
SqlMaps ==
    UNION {[D -> {"first_name", "years"}] : D \in SUBSET SqlKeys}
SqlRequests ==
    {[op |-> "sqlForPartialUpdate", data |-> d, jsToSql |-> m] :
        d \in Objects({Entry("firstName", Str("Aliya")), Entry("age", Num(32)),
                       Entry("name", Str("Acme"))}, MaxFields),
        m \in SqlMaps}

InitSql ==
    /\ companies = {} /\ jobs = {} /\ nextId = 1
    /\ pc = [p \in Procs |-> IF p = 1 THEN "called" ELSE "idle"]
    /\ req \in {[p \in Procs |-> IF p = 1 THEN r ELSE NoRequest] : r \in SqlRequests}
    /\ res = [p \in Procs |-> NoResult]

NextSql == SqlForPartialUpdateCall(1)

\* sqlForPartialUpdate on its own
SpecSql == InitSql /\ [][NextSql]_vars

NextConc ==
    \E p \in Procs :
        \/ CallCreate(p)
        \/ CompanyCreateCheck(p)
        \/ CompanyCreateInsert(p)
        \/ JobCreateCheck(p)
        \/ JobCreateInsert(p)
        \/ Respond(p)

\* create calls served concurrently, interleaved statement by statement
SpecConc == Init /\ [][NextConc]_vars

\* ----------------------------------------------------------------- claims

\* C1: for a non-empty field mapping d and a translation m, the helper
\* returns one fragment and one value per field of d, in d's order: the
\* i-th fragment reads "<column>"=$i, <column> being m's entry for the i-th
\* field if m has one and the field's name otherwise, and the i-th value is
\* the i-th field's value; the fragments are joined by ", ".
C1_FragmentPerField ==
    \A p \in Procs :
        (pc[p] = "done" /\ req[p].op = "sqlForPartialUpdate" /\ Len(req[p].data) > 0) =>
            LET d == req[p].data
                m == req[p].jsToSql
                n == Len(d)
                out == res[p].ret
            IN  /\ res[p].err = "none"
                /\ Len(out.values) = n
                /\ Len(out.setCols) = 2 * n - 1
                /\ \A i \in 1 .. n :
                      /\ out.setCols[2 * i - 1] =
                            "\"" \o (IF d[i].k \in DOMAIN m THEN m[d[i].k] ELSE d[i].k)
                                 \o "\"=$" \o ToString(i)
                      /\ out.values[i] = d[i].v
                /\ \A i \in 1 .. n - 1 : out.setCols[2 * i] = ", "

\* a call with a translated first field and an untranslated second one
C1_Witness ==
    \E p \in Procs :
        /\ pc[p] = "done" /\ req[p].op = "sqlForPartialUpdate"
        /\ res[p].err = "none"
        /\ Len(req[p].data) >= 2
        /\ req[p].data[1].k \in DOMAIN req[p].jsToSql
        /\ req[p].data[2].k \notin DOMAIN req[p].jsToSql

\* C2: update(key, data) with non-empty data on a key that is not stored
\* fails with NotFoundError and leaves both tables as they were, for
\* Company.update and for Job.update.
C2_UpdateOfMissingKey ==
    [][\A p \in Procs :
          /\ (/\ Serving(p, "Company.update")
              /\ req[p].data # <<>>
              /\ {r \in companies : r.handle = req[p].handle} = {}
              /\ pc'[p] = "done")
                => (/\ res'[p].err = "NotFoundError"
                    /\ companies' = companies /\ jobs' = jobs)
          /\ (/\ Serving(p, "Job.update")
              /\ req[p].data # <<>>
              /\ {r \in jobs : r.id = req[p].id} = {}
              /\ pc'[p] = "done")
                => (/\ res'[p].err = "NotFoundError"
                    /\ companies' = companies /\ jobs' = jobs)]_vars

\* C3: Company.get on a stored company returns a jobs list with exactly one
\* entry per job row of that company: [] when it has none.
C3_JobsOfCompany ==
    \A p \in Procs :
        (pc[p] = "done" /\ req[p].op = "Company.get" /\ res[p].err = "none") =>
            LET mine == {j \in jobs : j.company_handle = req[p].handle}
                list == res[p].ret.jobs
            IN  /\ Len(list) = Cardinality(mine)
                /\ {list[i] : i \in DOMAIN list} =
                      {[id |-> j.id, title |-> j.title, salary |-> j.salary,
                        equity |-> j.equity] : j \in mine}

\* C4, as stated: findAll's parameter list has one entry per filter that is
\* present in the criteria, and the placeholders of the query are $1..$n in
\* order.
C4_ParameterPerPresentFilter ==
    \A p \in Procs :
        (pc[p] = "done" /\ req[p].op \in {"Company.findAll", "Job.findAll"}) =>
            LET stmt == res[p].sent[1]
                IsPlaceholder(x) == \E k \in 1 .. 3 : x = "$" \o ToString(k)
                found == SelectSeq(stmt.text, IsPlaceholder)
            IN  /\ Len(stmt.params) = Len(req[p].filters)
                /\ Len(found) = Len(stmt.params)
                /\ \A i \in DOMAIN found : found[i] = "$" \o ToString(i)

\* C4, amended: findAll's parameter list has one entry per clause of the
\* query that takes a parameter (name, minEmployees, maxEmployees; title,
\* minSalary), the i-th entry being the value of the i-th such clause; the
\* hasEquity clause, equity > 0, takes none. Each such clause is followed by
\* its placeholder, and the placeholders are $1..$n in order.
C4_ParameterPerPlaceholder ==
    \A p \in Procs :
        (pc[p] = "done" /\ req[p].op \in {"Company.findAll", "Job.findAll"}) =>
            LET stmt == res[p].sent[1]
                text == stmt.text
                f == req[p].filters
                IsPlaceholder(x) == \E k \in 1 .. 3 : x = "$" \o ToString(k)
                TakesParameter(x) ==
                    x \in {"name ILIKE", "num_employees >=", "num_employees <=",
                           "title ILIKE", "salary >="}
                found == SelectSeq(text, IsPlaceholder)
                clauses == SelectSeq(text, TakesParameter)
                ValueOf(cmp) ==
                    CASE cmp = "name ILIKE" -> Str("%" \o Get(f, "name").s \o "%")
                      [] cmp = "title ILIKE" -> Str("%" \o Get(f, "title").s \o "%")
                      [] cmp = "num_employees >=" -> Get(f, "minEmployees")
                      [] cmp = "num_employees <=" -> Get(f, "maxEmployees")
                      [] cmp = "salary >=" -> Get(f, "minSalary")
            IN  /\ Len(stmt.params) = Len(clauses)
                /\ Len(found) = Len(clauses)
                /\ \A i \in DOMAIN found : found[i] = "$" \o ToString(i)
                /\ \A i \in DOMAIN clauses : stmt.params[i] = ValueOf(clauses[i])
                /\ \A j \in DOMAIN text :
                      /\ TakesParameter(text[j]) =>
                            j < Len(text) /\ IsPlaceholder(text[j + 1])
                      /\ IsPlaceholder(text[j]) => TakesParameter(text[j - 1])

\* a Job.findAll with all three filters: two parameters, three clauses
C4_Witness ==
    \E p \in Procs :
        /\ pc[p] = "done" /\ req[p].op = "Job.findAll"
        /\ Len(req[p].filters) = 3
        /\ Len(res[p].sent[1].params) = 2
        /\ \E i \in DOMAIN res[p].sent[1].text : res[p].sent[1].text[i] = "equity > 0"

\* C5: findAll's query has one comparison per filter present in the
\* criteria (0 and false count as present) and none for an absent one; the
\* first is introduced by WHERE and each later one by AND.
C5_ClausePerPresentFilter ==
    \A p \in Procs :
        (pc[p] = "done" /\ req[p].op \in {"Company.findAll", "Job.findAll"}) =>
            LET text == res[p].sent[1].text
                f == req[p].filters
                Count(x) == Cardinality({i \in DOMAIN text : text[i] = x})
            IN  /\ \A c \in {<<"name", "name ILIKE">>,
                             <<"minEmployees", "num_employees >=">>,
                             <<"maxEmployees", "num_employees <=">>,
                             <<"title", "title ILIKE">>,
                             <<"minSalary", "salary >=">>,
                             <<"hasEquity", "equity > 0">>} :
                      Count(c[2]) = IF Get(f, c[1]) # Undefined THEN 1 ELSE 0
                /\ Count("WHERE") = IF Len(f) = 0 THEN 0 ELSE 1
                /\ Count("AND") = IF Len(f) = 0 THEN 0 ELSE Len(f) - 1
                /\ Len(f) > 0 => text[2] = "WHERE"

\* C6: create called while a record with the same natural key (handle,
\* title) is stored fails with BadRequestError (Duplicate) after its check
\* and sends no INSERT; both tables stay as they were.
C6_DuplicateCreate ==
    [][\A p \in Procs :
          /\ (/\ Serving(p, "Company.create")
              /\ \E r \in companies : r.handle = req[p].data.handle
              /\ pc'[p] # pc[p])
                => (/\ pc'[p] = "done"
                    /\ res'[p].err = "BadRequestError"
                    /\ res'[p].msg = "Duplicate company: " \o req[p].data.handle.s
                    /\ Len(res'[p].sent) = 1
                    /\ companies' = companies /\ jobs' = jobs /\ nextId' = nextId)
          /\ (/\ Serving(p, "Job.create")
              /\ \E r \in jobs : r.title = req[p].data.title
              /\ pc'[p] # pc[p])
                => (/\ pc'[p] = "done"
                    /\ res'[p].err = "BadRequestError"
                    /\ res'[p].msg = "Duplicate job: " \o req[p].data.title.s
                    /\ Len(res'[p].sent) = 1
                    /\ companies' = companies /\ jobs' = jobs /\ nextId' = nextId)]_vars

\* a create of a stored handle that was turned down
C6_Witness ==
    \E p \in Procs :
        /\ pc[p] = "done" /\ req[p].op = "Company.create"
        /\ res[p].err = "BadRequestError"
        /\ \E r \in companies : r.handle = req[p].data.handle

\* C7: sqlForPartialUpdate on an empty field mapping fails with
\* BadRequestError "No data" whatever the translation, so an update with
\* empty data fails with that error, sends no statement and leaves both
\* tables as they were.
C7_NoData ==
    [][\A p \in Procs :
          (/\ Serving(p, "Company.update") \/ Serving(p, "Job.update")
           /\ req[p].data = <<>>
           /\ pc'[p] # pc[p])
             => (/\ pc'[p] = "done"
                 /\ res'[p].err = "BadRequestError"
                 /\ res'[p].msg = "No data"
                 /\ res'[p].sent = <<>>
                 /\ companies' = companies /\ jobs' = jobs
                 /\ \A m \in SqlMaps \cup {CompanyJsToSql, JobJsToSql} :
                       /\ sqlForPartialUpdate(<<>>, m).err = "BadRequestError"
                       /\ sqlForPartialUpdate(<<>>, m).msg = "No data")]_vars

\* an update of a stored job with empty data that was turned down
C7_Witness ==
    \E p \in Procs :
        /\ pc[p] = "done" /\ req[p].op = "Job.update"
        /\ req[p].data = <<>>
        /\ res[p].err = "BadRequestError"
        /\ \E r \in jobs : r.id = req[p].id

\* C8: remove(key) fails with NotFoundError exactly when no stored record
\* has the key, and then changes nothing; otherwise it deletes the record
\* and raises nothing, so that no record has the key afterwards.
C8_Remove ==
    [][\A p \in Procs :
          /\ (Serving(p, "Company.remove") /\ pc'[p] # pc[p]) =>
                LET hit == {r \in companies : r.handle = req[p].handle}
                IN  /\ pc'[p] = "done"
                    /\ res'[p].err = IF hit = {} THEN "NotFoundError" ELSE "none"
                    /\ hit = {} =>
                          /\ res'[p].msg = "No company: " \o req[p].handle.s
                          /\ companies' = companies /\ jobs' = jobs
                    /\ hit # {} =>
                          /\ companies' = companies \ hit
                          /\ \A r \in companies' : r.handle # req[p].handle
          /\ (Serving(p, "Job.remove") /\ pc'[p] # pc[p]) =>
                LET hit == {r \in jobs : r.id = req[p].id}
                IN  /\ pc'[p] = "done"
                    /\ res'[p].err = IF hit = {} THEN "NotFoundError" ELSE "none"
                    /\ hit = {} =>
                          /\ res'[p].msg = "No job: " \o ToString(req[p].id.n)
                          /\ companies' = companies /\ jobs' = jobs
                    /\ hit # {} =>
                          /\ jobs' = jobs \ hit /\ companies' = companies
                          /\ \A r \in jobs' : r.id # req[p].id]_vars

\* a job was removed while another one stays
C8_Witness ==
    \E p \in Procs :
        /\ pc[p] = "done" /\ req[p].op = "Job.remove"
        /\ res[p].err = "none"
        /\ jobs # {}
        /\ \A r \in jobs : r.id # req[p].id

\* C9: however concurrent create calls interleave, no two stored companies
\* share a handle and no two stored jobs share a title.
C9_UniqueKeys ==
    /\ \A a, b \in companies : a.handle = b.handle => a = b
    /\ \A a, b \in jobs : a.title = b.title => a = b

\* C10: an update that succeeds sets, in the record of the key, each field
\* named in data to the value given, and leaves that record's other fields,
\* its key and every other record of both tables as they were.
C10_UpdateFrame ==
    [][\A p \in Procs :
          /\ (Serving(p, "Company.update") /\ pc'[p] = "done" /\ res'[p].err = "none") =>
                LET d == req[p].data
                    To(new, old) == IF new # Undefined THEN new ELSE old
                IN  \E old \in companies : \E new \in companies' :
                       /\ old.handle = req[p].handle
                       /\ new.handle = old.handle
                       /\ new.name = To(Get(d, "name"), old.name)
                       /\ new.description = To(Get(d, "description"), old.description)
                       /\ new.num_employees = To(Get(d, "numEmployees"), old.num_employees)
                       /\ new.logo_url = To(Get(d, "logoUrl"), old.logo_url)
                       /\ companies' \ {new} = companies \ {old}
                       /\ jobs' = jobs
          /\ (Serving(p, "Job.update") /\ pc'[p] = "done" /\ res'[p].err = "none") =>
                LET d == req[p].data
                    To(new, old) == IF new # Undefined THEN new ELSE old
                IN  \E old \in jobs : \E new \in jobs' :
                       /\ old.id = req[p].id
                       /\ new.id = old.id
                       /\ new.title = To(Get(d, "title"), old.title)
                       /\ new.salary = To(Get(d, "salary"), old.salary)
                       /\ new.equity = To(Get(d, "equity"), old.equity)
                       /\ new.company_handle = old.company_handle
                       /\ jobs' \ {new} = jobs \ {old}
                       /\ companies' = companies]_vars

\* a two-field update of one of two stored companies went through
C10_Witness ==
    \E p \in Procs :
        /\ pc[p] = "done" /\ req[p].op = "Company.update"
        /\ res[p].err = "none"
        /\ Len(req[p].data) = 2
        /\ Cardinality(companies) = 2
        /\ \E r \in companies :
              r.handle = req[p].handle /\ r.name = Str("Bolt") /\ r.num_employees = Num(5)

====
